---------------------------- MODULE Spec2Model ----------------------------
(***************************************************************************)
(* A model of src/helpers/DeviceOrientationHelper.js: the permission       *)
(* handshake of init()/request_API(), the two sensor handlers, update()    *)
(* and destroy().                                                          *)
(*                                                                         *)
(* JavaScript values are tagged tuples: <<"null">>, <<"undefined">> and    *)
(* <<"num", n>>.  An object reference that may be null is a sequence of    *)
(* length 0 (null) or 1 (the object).                                      *)
(*                                                                         *)
(* The model is run-to-completion: a handler (a call of the public API, a  *)
(* DOM event listener, a promise reaction together with the reactions it   *)
(* chains to) is one action, as on a single-threaded event loop.           *)
(***************************************************************************)
EXTENDS Integers, Sequences, FiniteSets

(* ------------------------------ bounds --------------------------------- *)

\* Number of init() calls a behaviour makes.
MaxInits == 1

\* Permission requests in flight plus retry listeners waiting, all calls.
MaxPending == 1

Calls == 1..MaxInits

(* ----------------------------- JS values ------------------------------- *)

Null == <<"null">>
Undefined == <<"undefined">>
Num(n) == <<"num", n>>

\* The number a value is in a product: null is 0.
ToNumber(v) == IF v[1] = "num" THEN v[2] ELSE 0

\* The values one field of a DeviceOrientationEvent takes in the model.
AlphaVals == {Null, Num(90)}
BetaVals == {Null, Undefined, Num(90)}
GammaVals == {Null, Num(-90)}

\* The events with no null field.
ValidEvents ==
  [alpha : AlphaVals \ {Null}, beta : BetaVals \ {Null}, gamma : GammaVals \ {Null}]

\* The events delivered: the valid ones, a reading with one field null, and
\* the event of a desktop browser, whose three fields are null.
Events ==
  ValidEvents
    \cup {[[alpha |-> Num(90), beta |-> Num(90), gamma |-> Num(-90)] EXCEPT ![f] = Null] :
            f \in {"alpha", "beta", "gamma"}}
    \cup {[alpha |-> Null, beta |-> Null, gamma |-> Null]}

HasNull(event) == event.alpha = Null \/ event.beta = Null \/ event.gamma = Null

\* window.orientation as the platform reports it (undefined on desktop).
OrientationVals == {Undefined, Num(90)}

\* The options init() reads.  DOMTrigger and DOMRetryTrigger are elements
\* or null: TRUE is the element (G, resp. R), FALSE is null.
\* DOMTriggerOnClick is a callback or null.
Configs ==
  [THREE : BOOLEAN, DOMTrigger : BOOLEAN, DOMTriggerOnClick : BOOLEAN,
   DOMRetryTrigger : BOOLEAN, isRejectIfMissing : BOOLEAN]

\* The configurations init() is called with on a platform: an option the
\* code never reads there keeps its default (isRejectIfMissing is read only
\* without requestPermission, DOMRetryTrigger only with it), and the
\* callback DOMTriggerOnClick comes with its element.
ConfigsOn(hasRP) ==
  {cfg \in Configs : /\ cfg.isRejectIfMissing => ~hasRP
                     /\ cfg.DOMRetryTrigger => hasRP
                     /\ cfg.DOMTriggerOnClick => cfg.DOMTrigger}

\* What DeviceOrientationEvent.requestPermission() resolves with.
Responses == {"granted", "denied"}

\* The errors it rejects with, by the text before the first ':' of
\* error.toString().
Errors == {"NotAllowedError", "SecurityError"}

\* Click targets: the DOMTrigger element, the DOMRetryTrigger element, window.
RetryTargets == {"R", "W"}

SensorListeners == {"orientationchange", "deviceorientation"}

\* compute_rotationX, compute_rotationY, compute_rotationZ.
Axes == {"x", "y", "z"}

(* ------------------------------ state ---------------------------------- *)

VARIABLES
  spec,                 \* _spec: <<>> (null) or <<config>>
  isEnabled,            \* _isEnabled
  deviceOrientation,    \* _deviceOrientation: <<>> (null) or <<event>>
  screenOrientation,    \* _screenOrientation, radians (fixed point)
  isThree,              \* _isThree
  listeners,            \* the module's listeners attached to window
  windowOrientation,    \* window.orientation
  hasRequestPermission, \* DeviceOrientationEvent.requestPermission is a function
  nCalls,               \* init() calls made so far
  ready,                \* ready[c]: state of the promise init() call c returned
  triggerL,             \* click listeners on DOMTrigger, in order: their call
  retryL,               \* retryL[t]: retry click listeners on target t: their call
  pending,              \* pending[c][r]: requestPermission() calls in flight, by retriesCount
  reqCount,             \* history: requestPermission() calls issued for call c (3: three or more)
  validSeen,            \* history: the listener got an event with no null field
  last,                 \* history: the last step of the handshake or destroy()
  ret,                  \* what the step returned, when it was update()
  gotNull               \* the step gave the listener an event with a null field

vars ==
  <<spec, isEnabled, deviceOrientation, screenOrientation, isThree, listeners,
    windowOrientation, hasRequestPermission, nCalls, ready, triggerL, retryL,
    pending, reqCount, validSeen, last, ret, gotNull>>

(* --------------------------- pure helpers ------------------------------ *)

Min(a, b) == IF a < b THEN a ELSE b

\* _d2r = Math.PI / 180.0, as a fixed-point factor: radians are counted in
\* units of 1e-5 rad.
PiE5 == 314159

d2r(deg) ==
  IF deg >= 0 THEN (deg * PiE5) \div 180 ELSE 0 - ((0 - deg) * PiE5) \div 180

\* Mutant: a later accept() or reject() overwrites the outcome.
Settle_Overwrites(p, how) == how

\* A promise settles once: resolving or rejecting a settled promise is a no-op.
Settle(p, how) == IF p = "pending" THEN how ELSE p


(* ------------------------ sensor subscription -------------------------- *)

\* The part of the state the handshake code writes, as one record h:
\* isEnabled, listeners, ready, retryL, pending, reqCount, and log (what
\* the listeners of one click did, in order).

\* Mutant: the listeners are attached and the flag is not set.
add_eventListeners_NoFlag(h) ==
  [h EXCEPT !.listeners = @ \cup SensorListeners]

\* add_eventListeners(): window.addEventListener with a listener already
\* attached is a no-op, so the attached listeners are a set.
add_eventListeners(h) ==
  [h EXCEPT !.isEnabled = TRUE, !.listeners = @ \cup SensorListeners]

\* Mutant: the listeners are removed and the flag is left as it was.
remove_eventListeners_KeepsFlag(h) ==
  [h EXCEPT !.listeners = @ \ SensorListeners]

\* Mutant: the flag is flipped instead of cleared.
remove_eventListeners_Toggles(h) ==
  [h EXCEPT !.isEnabled = ~@, !.listeners = @ \ SensorListeners]

remove_eventListeners(h) ==
  [h EXCEPT !.isEnabled = FALSE, !.listeners = @ \ SensorListeners]

\* Mutant: only alpha is tested for null.
onDeviceOrientationChangeEvent_AlphaOnly(device, event) ==
  IF event.alpha = Null THEN device ELSE <<event>>

\* Mutant: gamma is not tested for null.
onDeviceOrientationChangeEvent_NoGamma(device, event) ==
  IF event.alpha = Null \/ event.beta = Null THEN device ELSE <<event>>

\* Mutant: the first sample is kept, later ones are dropped.
onDeviceOrientationChangeEvent_KeepsFirst(device, event) ==
  IF event.alpha = Null \/ event.beta = Null \/ event.gamma = Null \/ device # <<>>
    THEN device
    ELSE <<event>>

\* Mutant: the listener stores every event, null fields or not.
onDeviceOrientationChangeEvent_NoCheck(device, event) == <<event>>

\* onDeviceOrientationChangeEvent(event): the new _deviceOrientation.
onDeviceOrientationChangeEvent(device, event) ==
  IF event.alpha = Null \/ event.beta = Null \/ event.gamma = Null
    THEN device
    ELSE <<event>>

\* Mutant: the angle is stored in degrees.
onScreenOrientationChangeEvent_Degrees(orientation) ==
  IF orientation[1] = "num" THEN orientation[2] ELSE 0

\* onScreenOrientationChangeEvent(): the new _screenOrientation, from
\* window.orientation || 0 (undefined and 0 are both falsy).
onScreenOrientationChangeEvent(orientation) ==
  d2r(IF orientation[1] = "num" THEN orientation[2] ELSE 0)

(* --------------------------- the handshake ----------------------------- *)

\* accept() / reject() of the promise chain that ends in the promise
\* init() call c returned.
accept(h, c) == [h EXCEPT !.ready[c] = Settle(@, "fulfilled")]

reject(h, c) == [h EXCEPT !.ready[c] = Settle(@, "rejected")]

\* Mutant: without requestPermission the promise is accepted and the
\* listeners are not added.
request_API_NoListeners(h, c, retriesCount, cfg) ==
  IF hasRequestPermission
    THEN [h EXCEPT !.pending[c][retriesCount] = @ + 1,
                   !.reqCount[c] = Min(@ + 1, 3),
                   !.log = Append(@, <<c, "requestPermission">>)]
    ELSE IF cfg.isRejectIfMissing
      THEN reject(h, c)
      ELSE accept(h, c)

\* Mutant: isRejectIfMissing is not read.
request_API_NeverRejects(h, c, retriesCount, cfg) ==
  IF hasRequestPermission
    THEN [h EXCEPT !.pending[c][retriesCount] = @ + 1,
                   !.reqCount[c] = Min(@ + 1, 3),
                   !.log = Append(@, <<c, "requestPermission">>)]
    ELSE accept(add_eventListeners(h), c)

\* request_API(retriesCount), the synchronous part (the promise executor),
\* run for the chain of call c with _spec = cfg.
request_API(h, c, retriesCount, cfg) ==
  IF hasRequestPermission
    THEN [h EXCEPT !.pending[c][retriesCount] = @ + 1,
                   !.reqCount[c] = Min(@ + 1, 3),
                   !.log = Append(@, <<c, "requestPermission">>)]
    ELSE IF cfg.isRejectIfMissing
      THEN reject(h, c)
      ELSE accept(add_eventListeners(h), c)

\* Mutant: the listeners are added whatever the response.
onPermissionResponse_AlwaysAdds(h, c, response) ==
  accept(add_eventListeners(h), c)

\* requestPermission().then(function(response){...})
onPermissionResponse(h, c, response) ==
  accept(IF response = "granted" THEN add_eventListeners(h) ELSE h, c)

\* error.toString().split(':').shift().toUpperCase()
errorType(error) ==
  CASE error = "NotAllowedError" -> "NOTALLOWEDERROR"
    [] error = "SecurityError" -> "SECURITYERROR"

\* Mutant: the retry path is taken on every attempt.
onPermissionError_RetriesAgain(h, c, retriesCount, error, cfg) ==
  IF errorType(error) = "NOTALLOWEDERROR" /\ ~cfg.DOMTrigger
    THEN LET t == IF cfg.DOMRetryTrigger THEN "R" ELSE "W"
         IN  [h EXCEPT !.retryL[t] = Append(@, c)]
    ELSE reject(h, c)

\* Mutant: the retry path is taken with a DOMTrigger configured too.
onPermissionError_IgnoresTrigger(h, c, retriesCount, error, cfg) ==
  IF errorType(error) = "NOTALLOWEDERROR" /\ retriesCount = 0
    THEN LET t == IF cfg.DOMRetryTrigger THEN "R" ELSE "W"
         IN  [h EXCEPT !.retryL[t] = Append(@, c)]
    ELSE reject(h, c)

\* .catch(function(error){...}): attach the retry listener or reject.
onPermissionError(h, c, retriesCount, error, cfg) ==
  IF errorType(error) = "NOTALLOWEDERROR" /\ ~cfg.DOMTrigger /\ retriesCount = 0
    THEN LET t == IF cfg.DOMRetryTrigger THEN "R" ELSE "W"
         IN  [h EXCEPT !.retryL[t] = Append(@, c)]
    ELSE reject(h, c)

\* Mutant: the request is made before the callback is called.
onTriggerClick_RequestFirst(h, c, cfg) ==
  LET h1 == request_API(h, c, 0, cfg)
  IN  IF cfg.DOMTriggerOnClick
        THEN [h1 EXCEPT !.log = Append(@, <<c, "DOMTriggerOnClick">>)]
        ELSE h1

\* The anonymous click listener init() call c put on DOMTrigger.
onTriggerClick(h, c, cfg) ==
  LET h1 == IF cfg.DOMTriggerOnClick
              THEN [h EXCEPT !.log = Append(@, <<c, "DOMTriggerOnClick">>)]
              ELSE h
  IN  request_API(h1, c, 0, cfg)

\* retry(): the listener has removed itself; request_API(retriesCount + 1).
onRetryClick(h, c, cfg) == request_API(h, c, 1, cfg)

\* A click event runs the target's listeners in the order they were added.
RECURSIVE FireTrigger(_, _, _)
FireTrigger(h, ls, cfg) ==
  IF ls = <<>> THEN h
  ELSE FireTrigger(onTriggerClick(h, Head(ls), cfg), Tail(ls), cfg)

RECURSIVE FireRetry(_, _, _)
FireRetry(h, ls, cfg) ==
  IF ls = <<>> THEN h
  ELSE FireRetry(onRetryClick(h, Head(ls), cfg), Tail(ls), cfg)

\* Requests in flight and retry listeners waiting.
Tokens ==
  LET RECURSIVE Sum(_)
      Sum(S) == IF S = {} THEN 0
                ELSE LET c == CHOOSE x \in S : TRUE
                     IN  pending[c][0] + pending[c][1] + Sum(S \ {c})
  IN  Sum(Calls) + Len(retryL["R"]) + Len(retryL["W"])

H ==
  [isEnabled |-> isEnabled, listeners |-> listeners, ready |-> ready,
   retryL |-> retryL, pending |-> pending, reqCount |-> reqCount, log |-> <<>>]

\* The handshake's writes.
Commit(h) ==
  /\ isEnabled' = h.isEnabled
  /\ listeners' = h.listeners
  /\ ready' = h.ready
  /\ retryL' = h.retryL
  /\ pending' = h.pending
  /\ reqCount' = h.reqCount

(* ------------------------------ update --------------------------------- *)

\* get_deviceEulerAngle(label): a field of the stored event, in radians;
\* 0 when the field is undefined.
get_deviceEulerAngle(device, label) ==
  IF device[label] = Undefined THEN 0 ELSE d2r(ToNumber(device[label]))

(* Exact arithmetic for the THREE path.  A number a + b*sqrt(2) is the     *)
(* pair <<a, b>>; the angles of the model are multiples of 90 degrees, so  *)
(* every half-angle sine and cosine is such a number over 2.               *)

RAdd(x, y) == <<x[1] + y[1], x[2] + y[2]>>

RSub(x, y) == <<x[1] - y[1], x[2] - y[2]>>

RMul(x, y) == <<x[1] * y[1] + 2 * x[2] * y[2], x[1] * y[2] + x[2] * y[1]>>

\* The quarter turns an angle in radians makes (the model's angles are
\* whole quarter turns).
QuarterTurns(rad) == rad \div d2r(90)

\* 2 * Math.cos(rad / 2) and 2 * Math.sin(rad / 2).
Cos2Half(rad) ==
  LET k == QuarterTurns(rad) % 8
  IN  CASE k = 0 -> <<2, 0>>  [] k = 1 -> <<0, 1>>  [] k = 2 -> <<0, 0>>
        [] k = 3 -> <<0, -1>> [] k = 4 -> <<-2, 0>> [] k = 5 -> <<0, -1>>
        [] k = 6 -> <<0, 0>>  [] k = 7 -> <<0, 1>>

Sin2Half(rad) ==
  LET k == QuarterTurns(rad) % 8
  IN  CASE k = 0 -> <<0, 0>>  [] k = 1 -> <<0, 1>>  [] k = 2 -> <<2, 0>>
        [] k = 3 -> <<0, 1>>  [] k = 4 -> <<0, 0>>  [] k = 5 -> <<0, -1>>
        [] k = 6 -> <<-2, 0>> [] k = 7 -> <<0, -1>>

\* THREE.Quaternion.setFromEuler for the order 'YXZ', times 8.
setFromEuler(x, y, z) ==
  LET c1 == Cos2Half(x)  c2 == Cos2Half(y)  c3 == Cos2Half(z)
      s1 == Sin2Half(x)  s2 == Sin2Half(y)  s3 == Sin2Half(z)
      scc == RMul(RMul(s1, c2), c3)  css == RMul(RMul(c1, s2), s3)
      csc == RMul(RMul(c1, s2), c3)  scs == RMul(RMul(s1, c2), s3)
      ccs == RMul(RMul(c1, c2), s3)  ssc == RMul(RMul(s1, s2), c3)
      ccc == RMul(RMul(c1, c2), c3)  sss == RMul(RMul(s1, s2), s3)
  IN  [x |-> RAdd(scc, css), y |-> RSub(csc, scs),
       z |-> RSub(ccs, ssc), w |-> RAdd(ccc, sss)]

\* THREE.Quaternion.multiply: a * b.
multiply(a, b) ==
  [x |-> RSub(RAdd(RAdd(RMul(a.x, b.w), RMul(a.w, b.x)), RMul(a.y, b.z)), RMul(a.z, b.y)),
   y |-> RSub(RAdd(RAdd(RMul(a.y, b.w), RMul(a.w, b.y)), RMul(a.z, b.x)), RMul(a.x, b.z)),
   z |-> RSub(RAdd(RAdd(RMul(a.z, b.w), RMul(a.w, b.z)), RMul(a.x, b.y)), RMul(a.y, b.x)),
   w |-> RSub(RSub(RSub(RMul(a.w, b.w), RMul(a.x, b.x)), RMul(a.y, b.y)), RMul(a.z, b.z))]

\* q1: Quaternion(-sqrt(0.5), 0, 0, sqrt(0.5)), times 2.
q1 == [x |-> <<0, -1>>, y |-> <<0, 0>>, z |-> <<0, 0>>, w |-> <<0, 1>>]

\* q0.setFromAxisAngle(zee, angle) with zee = (0, 0, 1), times 2.
setFromAxisAngle(angle) ==
  [x |-> <<0, 0>>, y |-> <<0, 0>>, z |-> Sin2Half(angle), w |-> Cos2Half(angle)]

\* Mutant: the screen orientation is left out of the product.
set_quaternion_NoOrient(alpha, beta, gamma, orient) ==
  multiply(setFromEuler(beta, alpha, 0 - gamma), q1)

\* set_quaternion(quaternion, alpha, beta, gamma, orient): the quaternion,
\* times 32.
set_quaternion(alpha, beta, gamma, orient) ==
  multiply(multiply(setFromEuler(beta, alpha, 0 - gamma), q1),
           setFromAxisAngle(0 - orient))

\* update() run with the given _isEnabled, _deviceOrientation,
\* _screenOrientation and _isThree: null, the quaternion (THREE) or the raw
\* tuple _angles.
updateOf(enabled, deviceRef, orient, three) ==
  IF ~enabled \/ deviceRef = <<>>
    THEN [kind |-> "null", v |-> <<>>]
    ELSE LET device == deviceRef[1]
             alpha == get_deviceEulerAngle(device, "alpha")
             beta == get_deviceEulerAngle(device, "beta")
             gamma == get_deviceEulerAngle(device, "gamma")
         IN  IF three
               THEN [kind |-> "quat", v |-> <<set_quaternion(alpha, beta, gamma, orient)>>]
               ELSE [kind |-> "angles", v |-> <<alpha, beta, gamma, orient>>]

\* What update() returns in the current state.
update == updateOf(isEnabled, deviceOrientation, screenOrientation, isThree)

\* What update() returns in the next state.
updateNext == updateOf(isEnabled', deviceOrientation', screenOrientation', isThree')

(* ----------------------------- actions --------------------------------- *)

\* last: the operation (op), the init() call it belongs to (c, 0 for all
\* or none), the retriesCount of the request answered (r), the response,
\* error or click target (arg) and, for a DOMTrigger click, what the
\* listeners did, in order (log).
Step(op, c, r, arg, lg) == [op |-> op, c |-> c, r |-> r, arg |-> arg, log |-> lg]

NoStep == Step("none", 0, 0, "", <<>>)

NoRet == [kind |-> "none", v |-> <<>>]

Init ==
  /\ spec = <<>>
  /\ isEnabled = FALSE
  /\ deviceOrientation = <<>>
  /\ screenOrientation = 0
  /\ isThree = FALSE
  /\ listeners = {}
  /\ windowOrientation \in OrientationVals
  /\ hasRequestPermission \in BOOLEAN
  /\ nCalls = 0
  /\ ready = [c \in Calls |-> "none"]
  /\ triggerL = <<>>
  /\ retryL = [t \in RetryTargets |-> <<>>]
  /\ pending = [c \in Calls |-> [r \in {0, 1} |-> 0]]
  /\ reqCount = [c \in Calls |-> 0]
  /\ validSeen = FALSE
  /\ last = NoStep
  /\ ret = NoRet
  /\ gotNull = FALSE

\* init(spec)
init(cfg) ==
  /\ nCalls < MaxInits
  /\ LET c == nCalls + 1
         h0 == [H EXCEPT !.ready[c] = "pending"]
     IN  /\ nCalls' = c
         /\ spec' = <<cfg>>
         /\ isThree' = cfg.THREE
         /\ screenOrientation' = onScreenOrientationChangeEvent(windowOrientation)
         /\ IF cfg.DOMTrigger
              THEN /\ triggerL' = Append(triggerL, c)
                   /\ Commit(h0)
              ELSE /\ hasRequestPermission => Tokens < MaxPending
                   /\ triggerL' = triggerL
                   /\ Commit(request_API(h0, c, 0, cfg))
         /\ last' = Step("init", c, 0, "", <<>>)
  /\ ret' = NoRet /\ gotNull' = FALSE
  /\ UNCHANGED <<deviceOrientation, windowOrientation, hasRequestPermission, validSeen>>

\* A click on the DOMTrigger element.
ClickTrigger ==
  /\ triggerL # <<>>
  /\ hasRequestPermission => Tokens + Len(triggerL) <= MaxPending
  /\ LET h == FireTrigger(H, triggerL, spec[1])
     IN  Commit(h) /\ last' = Step("clickTrigger", 0, 0, "G", h.log)
  /\ ret' = NoRet /\ gotNull' = FALSE
  /\ UNCHANGED <<spec, deviceOrientation, screenOrientation, isThree,
                 windowOrientation, hasRequestPermission, nCalls, triggerL, validSeen>>

\* A click on a target that holds retry listeners.
ClickRetry(t) ==
  /\ retryL[t] # <<>>
  /\ Commit(FireRetry([H EXCEPT !.retryL[t] = <<>>], retryL[t], spec[1]))
  /\ last' = Step("clickRetry", 0, 0, t, <<>>)
  /\ ret' = NoRet /\ gotNull' = FALSE
  /\ UNCHANGED <<spec, deviceOrientation, screenOrientation, isThree,
                 windowOrientation, hasRequestPermission, nCalls, triggerL, validSeen>>

\* requestPermission() resolves.
PermissionResponse(c, r, response) ==
  /\ pending[c][r] > 0
  /\ Commit(onPermissionResponse([H EXCEPT !.pending[c][r] = @ - 1], c, response))
  /\ last' = Step("response", c, r, response, <<>>)
  /\ ret' = NoRet /\ gotNull' = FALSE
  /\ UNCHANGED <<spec, deviceOrientation, screenOrientation, isThree,
                 windowOrientation, hasRequestPermission, nCalls, triggerL, validSeen>>

\* requestPermission() rejects.
PermissionError(c, r, error) ==
  /\ pending[c][r] > 0
  /\ Commit(onPermissionError([H EXCEPT !.pending[c][r] = @ - 1], c, r, error, spec[1]))
  /\ last' = Step("error", c, r, error, <<>>)
  /\ ret' = NoRet /\ gotNull' = FALSE
  /\ UNCHANGED <<spec, deviceOrientation, screenOrientation, isThree,
                 windowOrientation, hasRequestPermission, nCalls, triggerL, validSeen>>

\* A deviceorientation event, delivered to the attached listener.
DeviceOrientationEvent(event) ==
  /\ "deviceorientation" \in listeners
  /\ deviceOrientation' = onDeviceOrientationChangeEvent(deviceOrientation, event)
  /\ validSeen' = (validSeen \/ ~HasNull(event))
  /\ gotNull' = HasNull(event)
  /\ ret' = NoRet
  /\ UNCHANGED <<spec, isEnabled, screenOrientation, isThree, listeners,
                 windowOrientation, hasRequestPermission, nCalls, ready, triggerL,
                 retryL, pending, reqCount, last>>

\* The screen turns: window.orientation changes, and the orientationchange
\* event reaches the listener if it is attached.
OrientationChangeEvent(orientation) ==
  /\ orientation # windowOrientation
  /\ windowOrientation' = orientation
  /\ screenOrientation' =
       IF "orientationchange" \in listeners
         THEN onScreenOrientationChangeEvent(orientation)
         ELSE screenOrientation
  /\ ret' = NoRet /\ gotNull' = FALSE
  /\ UNCHANGED <<spec, isEnabled, deviceOrientation, isThree, listeners,
                 hasRequestPermission, nCalls, ready, triggerL, retryL, pending,
                 reqCount, validSeen, last>>

\* update()
Update ==
  /\ ret' = update
  /\ gotNull' = FALSE
  /\ UNCHANGED <<spec, isEnabled, deviceOrientation, screenOrientation, isThree,
                 listeners, windowOrientation, hasRequestPermission, nCalls, ready,
                 triggerL, retryL, pending, reqCount, validSeen, last>>

\* Mutant: only compute_rotationX tests _isThree.
compute_rotation_XOnly(axis, three) ==
  IF ~three /\ axis = "x"
    THEN [kind |-> "throw", v |-> <<"Please provide THREE">>]
    ELSE [kind |-> "euler", v |-> <<>>]

\* compute_rotationX/Y/Z(quat), by the axis: throws Error('Please provide
\* THREE') when _isThree is false, else returns the axis' component of the
\* Euler angles of quat (the angle itself is not modelled).
compute_rotation(axis, three) ==
  IF ~three
    THEN [kind |-> "throw", v |-> <<"Please provide THREE">>]
    ELSE [kind |-> "euler", v |-> <<>>]

\* A call of compute_rotationX, compute_rotationY or compute_rotationZ.
ComputeRotation(axis) ==
  /\ ret' = compute_rotation(axis, isThree)
  /\ gotNull' = FALSE
  /\ UNCHANGED <<spec, isEnabled, deviceOrientation, screenOrientation, isThree,
                 listeners, windowOrientation, hasRequestPermission, nCalls, ready,
                 triggerL, retryL, pending, reqCount, validSeen, last>>

\* destroy()
destroy ==
  /\ Commit(remove_eventListeners(H))
  /\ last' = Step("destroy", 0, 0, "", <<>>)
  /\ ret' = NoRet /\ gotNull' = FALSE
  /\ UNCHANGED <<spec, deviceOrientation, screenOrientation, isThree,
                 windowOrientation, hasRequestPermission, nCalls, triggerL, validSeen>>

Next ==
  \/ \E cfg \in ConfigsOn(hasRequestPermission) : init(cfg)
  \/ ClickTrigger
  \/ \E t \in RetryTargets : ClickRetry(t)
  \/ \E c \in Calls, r \in {0, 1}, response \in Responses : PermissionResponse(c, r, response)
  \/ \E c \in Calls, r \in {0, 1}, error \in Errors : PermissionError(c, r, error)
  \/ \E event \in Events : DeviceOrientationEvent(event)
  \/ \E orientation \in OrientationVals : OrientationChangeEvent(orientation)
  \/ Update
  \/ \E axis \in Axes : ComputeRotation(axis)
  \/ destroy

Spec == Init /\ [][Next]_vars

\* The handshake alone (no sensor event, no update()), with every gesture
\* that has a listener eventually made and every request in flight
\* eventually answered.
HandshakeNext ==
  \/ \E cfg \in ConfigsOn(hasRequestPermission) : init(cfg)
  \/ ClickTrigger
  \/ \E t \in RetryTargets : ClickRetry(t)
  \/ \E c \in Calls, r \in {0, 1}, response \in Responses : PermissionResponse(c, r, response)
  \/ \E c \in Calls, r \in {0, 1}, error \in Errors : PermissionError(c, r, error)
  \/ destroy

Answer(c, r) ==
  \/ \E response \in Responses : PermissionResponse(c, r, response)
  \/ \E error \in Errors : PermissionError(c, r, error)

Fairness ==
  /\ WF_vars(ClickTrigger)
  /\ \A t \in RetryTargets : WF_vars(ClickRetry(t))
  /\ \A c \in Calls, r \in {0, 1} : WF_vars(Answer(c, r))

LiveSpec == Init /\ [][HandshakeNext]_vars /\ Fairness


(* ------------------------------ claims --------------------------------- *)

Range(f) == {f[i] : i \in DOMAIN f}

Settled == {"fulfilled", "rejected"}

NonNull == {"angles", "quat"}

\* init() call c was made with a DOMTrigger: its click listener is there.
HasTrigger(c) == c \in Range(triggerL)

\* The retry listeners of call c on target t.
Waiting(c, t) == Cardinality({i \in DOMAIN retryL[t] : retryL[t][i] = c})

\* C1: update() returns null exactly when the enabled flag is false or the
\* listener never got an event with alpha, beta and gamma all non-null; in
\* every other state it returns a rotation (the tuple or the quaternion).
C1_UpdateNullIff ==
  LET kind == update.kind
  IN  /\ kind = "null" <=> (~isEnabled \/ ~validSeen)
      /\ kind \in NonNull \cup {"null"}
      /\ ret.kind \in NonNull \cup {"null"} =>
           (ret.kind = "null" <=> (~isEnabled \/ ~validSeen))

\* update() has returned a rotation.
C1_Witness == ret.kind \in NonNull /\ isEnabled /\ validSeen

\* C2 as claimed: after requestPermission() resolved with a response other
\* than 'granted', the flag is true, both sensor listeners are attached and
\* the promise is fulfilled.
C2_DeniedStillEnables ==
  (last.op = "response" /\ last.arg # "granted") =>
    /\ isEnabled
    /\ SensorListeners \subseteq listeners
    /\ ready[last.c] = "fulfilled"

\* C2, amended: a response other than 'granted' fulfills the pending promise
\* and leaves the enabled flag and the listeners as they were.
C2_DeniedFulfillsOnly ==
  [][(/\ last'.op = "response" /\ last'.arg # "granted"
      /\ PermissionResponse(last'.c, last'.r, last'.arg)) =>
        /\ isEnabled' = isEnabled
        /\ listeners' = listeners
        /\ ready'[last'.c] =
             (IF ready[last'.c] = "pending" THEN "fulfilled" ELSE ready[last'.c])]_vars

\* The first request of a call was denied: fulfilled, and nothing enabled.
C2_Witness ==
  /\ last.op = "response" /\ last.arg = "denied"
  /\ ready[last.c] = "fulfilled" /\ reqCount[last.c] = 1
  /\ ~isEnabled /\ listeners = {}

\* C3: for an init() call c without DOMTrigger on a platform with
\* requestPermission: when the first request fails with a not-allowed error
\* (and the configuration in force still names no DOMTrigger), exactly one
\* click listener is attached, to DOMRetryTrigger or else to window, and the
\* promise stays pending; the click removes the listener and issues exactly
\* one further request (the second); when that one fails the promise is
\* rejected and neither a listener nor a request is left; the call never
\* issues more than two requests.
C3_OneRetry ==
  \A c \in Calls : (ready[c] # "none" /\ ~HasTrigger(c) /\ hasRequestPermission) =>
    LET waits == Waiting(c, "R") + Waiting(c, "W")
    IN  /\ reqCount[c] \in {1, 2}
        /\ pending[c][0] + waits + pending[c][1] <= 1
        /\ (pending[c][0] = 1 \/ waits = 1) => (reqCount[c] = 1 /\ ready[c] = "pending")
        /\ pending[c][1] = 1 => (reqCount[c] = 2 /\ ready[c] = "pending")
        /\ pending[c][0] + waits + pending[c][1] = 0 => ready[c] \in Settled
        /\ (/\ last.op = "error" /\ last.c = c /\ last.r = 0
            /\ last.arg = "NotAllowedError" /\ ~spec[1].DOMTrigger) =>
              /\ Waiting(c, IF spec[1].DOMRetryTrigger THEN "R" ELSE "W") = 1
              /\ waits = 1
        /\ (last.op = "clickRetry" /\ reqCount[c] = 2 /\ ready[c] = "pending") =>
              (waits = 0 /\ pending[c][1] = 1)
        /\ (last.op = "error" /\ last.c = c /\ last.r = 1) =>
              (ready[c] = "rejected" /\ waits = 0 /\ pending[c][0] + pending[c][1] = 0)

\* The retry was made and failed again with a not-allowed error.
C3_Witness ==
  /\ last.op = "error" /\ last.r = 1 /\ last.arg = "NotAllowedError"
  /\ ~HasTrigger(last.c)
  /\ ready[last.c] = "rejected" /\ reqCount[last.c] = 2

\* C4: after destroy(), with no step of the handshake since, update()
\* returns null, whatever the state destroy() was called in.
C4_DestroyThenUpdateNull ==
  last.op = "destroy" =>
    /\ update.kind = "null"
    /\ ret.kind \in NonNull \cup {"null"} => ret.kind = "null"

\* destroy() was called with the subscription enabled and a sample stored,
\* and update() then returned null.
C4_Witness ==
  /\ last.op = "destroy" /\ ret.kind = "null"
  /\ deviceOrientation # <<>> /\ ready[1] = "fulfilled"

\* C5 as claimed: right after destroy() no listener of the module is left
\* (sensor, screen rotation, DOMTrigger click, retry click), and the next
\* step, unless it is init(), leaves the enabled flag false.
C5_DestroyCancels ==
  /\ [](last.op = "destroy" =>
          /\ ~isEnabled /\ listeners = {}
          /\ triggerL = <<>>
          /\ \A t \in RetryTargets : retryL[t] = <<>>)
  /\ [][(last.op = "destroy" /\ nCalls' = nCalls) => ~isEnabled']_vars

\* C6: a sensor event with a null alpha, beta or gamma leaves the stored
\* sample as it was, and with it everything update() reads (the enabled
\* flag, the screen orientation, the THREE flag): update() returns after it
\* what it returned before.
C6_NullEventDropped ==
  [][gotNull' =>
       /\ deviceOrientation' = deviceOrientation
       /\ isEnabled' = isEnabled
       /\ screenOrientation' = screenOrientation
       /\ isThree' = isThree]_vars

\* The listener got an event with a null field while a sample was stored.
C6_Witness == gotNull /\ deviceOrientation # <<>> /\ isEnabled

\* C7: init() with a DOMTrigger issues no request and enables nothing; the
\* first request of such a call, and without requestPermission its
\* settlement, happens in a click on DOMTrigger; on that click each listener
\* calls DOMTriggerOnClick, if configured, right before its request.
\* init() without DOMTrigger issues the request at once.
C7_GestureFirst ==
  /\ [](last.op = "init" =>
          IF spec[1].DOMTrigger
            THEN /\ reqCount[last.c] = 0
                 /\ pending[last.c][0] + pending[last.c][1] = 0
                 /\ ready[last.c] = "pending"
            ELSE hasRequestPermission =>
                   (reqCount[last.c] = 1 /\ pending[last.c][0] = 1))
  /\ [](last.op = "clickTrigger" =>
          /\ \A i \in DOMAIN last.log :
               (last.log[i][2] = "requestPermission" /\ spec[1].DOMTriggerOnClick) =>
                 (i > 1 /\ last.log[i - 1] = <<last.log[i][1], "DOMTriggerOnClick">>)
          /\ \A c \in Range(triggerL) :
               /\ spec[1].DOMTriggerOnClick => <<c, "DOMTriggerOnClick">> \in Range(last.log)
               /\ hasRequestPermission => <<c, "requestPermission">> \in Range(last.log))
  /\ [][/\ (nCalls' # nCalls /\ spec'[1].DOMTrigger /\ init(spec'[1])) =>
             (isEnabled' = isEnabled /\ listeners' = listeners
                /\ pending' = pending /\ reqCount' = reqCount)
        /\ \A c \in Calls :
             (/\ c \in Range(triggerL)
              /\ \/ reqCount[c] = 0 /\ reqCount'[c] > 0
                 \/ ~hasRequestPermission /\ ready[c] = "pending" /\ ready'[c] # "pending")
               => ClickTrigger]_vars

\* A click on DOMTrigger called the callback and then issued the request.
C7_Witness ==
  /\ last.op = "clickTrigger"
  /\ last.log = <<<<1, "DOMTriggerOnClick">>, <<1, "requestPermission">>>>

\* C8: without requestPermission and with isRejectIfMissing false, the
\* handshake (init(), or the click on DOMTrigger) fulfills the pending
\* promise with the flag true and both sensor listeners attached; an event
\* with alpha, beta and gamma non-null then becomes the stored sample and
\* update() returns a rotation.
C8_UnsupportedAccepted ==
  /\ []((/\ last.op \in {"init", "clickTrigger"}
         /\ ~hasRequestPermission /\ ~spec[1].isRejectIfMissing
         /\ last.op = "init" => ~spec[1].DOMTrigger) =>
          /\ isEnabled /\ SensorListeners \subseteq listeners
          /\ last.op = "init" => ready[last.c] = "fulfilled"
          /\ \A c \in Range(triggerL) : last.op = "clickTrigger" => ready[c] \in Settled)
  /\ [][/\ (/\ ~hasRequestPermission /\ last'.op = "clickTrigger"
             /\ ~spec[1].isRejectIfMissing /\ ClickTrigger) =>
               \A c \in Range(triggerL) : ready[c] = "pending" => ready'[c] = "fulfilled"
        /\ \A event \in ValidEvents :
             (~hasRequestPermission /\ DeviceOrientationEvent(event)) =>
               (deviceOrientation' = <<event>> /\ updateNext.kind \in NonNull)]_vars

\* Accepted without requestPermission, and update() returned a rotation.
C8_Witness ==
  /\ ~hasRequestPermission /\ ready[1] = "fulfilled"
  /\ ~spec[1].isRejectIfMissing
  /\ validSeen /\ ret.kind \in NonNull

\* C9: without requestPermission and with isRejectIfMissing true, the
\* handshake (init(), or the click on DOMTrigger) rejects the pending
\* promise and leaves the enabled flag and the listeners as they were.
C9_UnsupportedRejected ==
  [][/\ (/\ ~hasRequestPermission /\ nCalls' # nCalls
         /\ spec'[1].isRejectIfMissing /\ ~spec'[1].DOMTrigger /\ init(spec'[1])) =>
           (ready'[nCalls'] = "rejected" /\ isEnabled' = isEnabled /\ listeners' = listeners)
     /\ (/\ ~hasRequestPermission /\ last'.op = "clickTrigger"
         /\ spec[1].isRejectIfMissing /\ ClickTrigger) =>
           /\ isEnabled' = isEnabled /\ listeners' = listeners
           /\ \A c \in Range(triggerL) : ready[c] = "pending" => ready'[c] = "rejected"]_vars

\* init() rejected for want of requestPermission, nothing enabled.
C9_Witness ==
  /\ last.op = "init" /\ ~hasRequestPermission /\ spec[1].isRejectIfMissing
  /\ ready[last.c] = "rejected" /\ ~isEnabled /\ listeners = {}

\* C10: the promise init() returned, once fulfilled or rejected, keeps that
\* outcome whatever clicks and answers follow; and, every gesture and every
\* answer eventually coming, a pending promise is eventually settled.
C10_SettledOnce ==
  /\ [][\A c \in Calls : ready[c] \in Settled => ready'[c] = ready[c]]_vars
  /\ \A c \in Calls : (ready[c] = "pending") ~> (ready[c] \in Settled)

\* A second click on DOMTrigger was answered after the promise was settled.
C10_Witness ==
  /\ HasTrigger(1) /\ ready[1] \in Settled /\ reqCount[1] >= 2
  /\ last.op \in {"response", "error"} /\ last.c = 1

\* C11: destroy() can be called in every state, also before any init(), and
\* leaves the enabled flag false; a second destroy() leaves the enabled
\* flag, the listeners, the stored sample and the screen orientation as the
\* first one left them.
C11_DestroyIdempotent ==
  LET once == remove_eventListeners(H)
      twice == remove_eventListeners(once)
  IN  /\ ENABLED destroy
      /\ ~once.isEnabled /\ once.listeners \cap SensorListeners = {}
      /\ twice = once
      /\ last.op = "destroy" => (once = H /\ ~isEnabled)
      /\ (last.op = "destroy" /\ nCalls = 0) =>
           (deviceOrientation = <<>> /\ screenOrientation = 0 /\ listeners = {})

\* destroy() was called before any init().
C11_Witness == last.op = "destroy" /\ nCalls = 0 /\ ~isEnabled

\* C12: compute_rotationX, compute_rotationY and compute_rotationZ throw in
\* every state where _isThree is false (no THREE configured, or no init()
\* yet) and only there, and the call leaves the enabled flag, the stored
\* sample, the screen orientation and the listeners as they were.
C12_RotationThrowsWithoutThree ==
  /\ [](/\ \A axis \in Axes : ENABLED ComputeRotation(axis)
        /\ \A axis \in Axes : compute_rotation(axis, isThree).kind = "throw" <=> ~isThree
        /\ isThree <=> (spec # <<>> /\ spec[1].THREE)
        /\ ret.kind \in {"throw", "euler"} => (ret.kind = "throw" <=> ~isThree))
  /\ [][ret'.kind \in {"throw", "euler"} =>
          /\ isEnabled' = isEnabled /\ listeners' = listeners
          /\ deviceOrientation' = deviceOrientation
          /\ screenOrientation' = screenOrientation
          /\ ret'.kind = "throw" <=> ~isThree]_vars

\* A compute_rotation call threw after an init() without THREE, with the
\* subscription enabled and a sample stored.
C12_Witness ==
  /\ ret.kind = "throw"
  /\ spec # <<>> /\ isEnabled /\ deviceOrientation # <<>>

\* C13: an orientationchange event that reports 90 degrees sets the screen
\* orientation to 90 degrees in radians; the rotation update() returns for a
\* stored sample at that orientation differs from the one it returns for
\* the same sample at orientation 0; and without THREE the fourth element
\* of the returned tuple is the screen orientation.
C13_OrientationInOutput ==
  /\ [](ret.kind \in NonNull =>
          /\ ret = update
          /\ updateOf(TRUE, deviceOrientation, d2r(90), isThree)
               # updateOf(TRUE, deviceOrientation, 0, isThree)
          /\ ret.kind = "angles" => ret.v[4] = screenOrientation)
  /\ [][(/\ windowOrientation' # windowOrientation
          /\ "orientationchange" \in listeners) =>
            /\ screenOrientation' = d2r(ToNumber(windowOrientation'))
            /\ windowOrientation' = Num(90) => screenOrientation' = d2r(90)]_vars

\* update() returned a quaternion with the screen turned by 90 degrees.
C13_Witness ==
  /\ ret.kind = "quat" /\ windowOrientation = Num(90)
  /\ screenOrientation = d2r(90)

\* C14 as claimed: once the promise of an init() call is rejected, no
\* answer to a request of that call and no click on its DOMTrigger or retry
\* target changes the enabled flag or the sensor listeners; and the
\* enabled flag turns false in destroy() only.
C14_TerminalStates ==
  /\ [][\A c \in Calls :
          (/\ ready[c] = "rejected"
           /\ \/ last'.op \in {"response", "error"} /\ last'.c = c
                   /\ pending'[c] # pending[c]
              \/ last'.op = "clickTrigger" /\ HasTrigger(c) /\ ClickTrigger
              \/ last'.op = "clickRetry" /\ Waiting(c, last'.arg) > 0
                   /\ ClickRetry(last'.arg)) =>
            (isEnabled' = isEnabled /\ listeners' = listeners)]_vars
  /\ [][(isEnabled /\ ~isEnabled') => (last'.op = "destroy" /\ destroy)]_vars

\* C15: when requestPermission() fails, the retry listener is attached (and
\* the promise left as it is) exactly when the error is a not-allowed
\* error, the configuration names no DOMTrigger and the request was the
\* first of its chain; in every other case the promise is rejected if it
\* is still pending and no retry listener is attached.  In both cases the
\* enabled flag and the sensor listeners stay as they were and no request
\* is issued.
C15_RetryOnlyWhen ==
  [][(last'.op = "error" /\ PermissionError(last'.c, last'.r, last'.arg)) =>
       LET c == last'.c
           retry == /\ last'.arg = "NotAllowedError"
                    /\ ~spec[1].DOMTrigger
                    /\ last'.r = 0
           t == IF spec[1].DOMRetryTrigger THEN "R" ELSE "W"
       IN  /\ isEnabled' = isEnabled /\ listeners' = listeners
           /\ reqCount' = reqCount
           /\ pending' = [pending EXCEPT ![c][last'.r] = @ - 1]
           /\ IF retry
                THEN /\ ready' = ready
                     /\ retryL' = [retryL EXCEPT ![t] = Append(@, c)]
                ELSE /\ ready' = [ready EXCEPT ![c] =
                                    IF @ = "pending" THEN "rejected" ELSE @]
                     /\ retryL' = retryL]_vars

\* A first request made from a DOMTrigger click failed with a not-allowed
\* error: rejected, no retry listener.
C15_Witness ==
  /\ last.op = "error" /\ last.arg = "NotAllowedError" /\ last.r = 0
  /\ spec[1].DOMTrigger /\ HasTrigger(last.c)
  /\ ready[last.c] = "rejected" /\ reqCount[last.c] = 1
  /\ \A t \in RetryTargets : retryL[t] = <<>>
  /\ ~isEnabled

Fields == {"alpha", "beta", "gamma"}

\* C16 as claimed: the stored sample is absent, or its alpha, beta and gamma
\* are all present (not undefined) and not null.
C16_StoredAllPresent ==
  deviceOrientation # <<>> =>
    \A f \in Fields : deviceOrientation[1][f] \notin {Null, Undefined}

\* C16, amended: the stored sample is absent, or none of its alpha, beta
\* and gamma is null; a field of it may be undefined, and update() then
\* reads that field as 0.
C16_StoredNonNull ==
  deviceOrientation # <<>> =>
    \A f \in Fields :
      /\ deviceOrientation[1][f] # Null
      /\ deviceOrientation[1][f] = Undefined =>
           get_deviceEulerAngle(deviceOrientation[1], f) = 0

\* An event with beta undefined is the stored sample, and update() returned
\* the angles with beta 0.
C16_Witness ==
  /\ deviceOrientation # <<>> /\ deviceOrientation[1].beta = Undefined
  /\ ret.kind = "angles" /\ ret.v[2] = 0

\* C17 as claimed: the screen orientation changes only in a step in which
\* the screen turns.
C17_OnlyRotationEvents ==
  [][screenOrientation' # screenOrientation =>
       windowOrientation' # windowOrientation]_vars

\* C17, amended: the screen orientation is 0 before the first init(); it
\* is written by init(), which reads window.orientation once, and by an
\* orientationchange event that reaches the attached listener, and then is
\* window.orientation (or 0) in radians; every other step (a turn of the
\* screen with no listener attached, a sensor event, update(),
\* compute_rotation, destroy(), a click, a permission outcome) leaves it
\* as it was.
C17_OffsetWrittenBy ==
  /\ [](nCalls = 0 => screenOrientation = 0)
  /\ [][LET turned == windowOrientation' # windowOrientation
            heard == turned /\ "orientationchange" \in listeners
        IN  /\ nCalls' # nCalls =>
                 screenOrientation' = d2r(ToNumber(windowOrientation))
            /\ heard => screenOrientation' = d2r(ToNumber(windowOrientation'))
            /\ (nCalls' = nCalls /\ ~heard) =>
                 screenOrientation' = screenOrientation]_vars

\* init() set the screen orientation to 90 degrees and no orientationchange
\* event has reached the listener (it was never attached).
C17_Witness ==
  /\ last.op = "init" /\ nCalls = 1 /\ listeners = {}
  /\ screenOrientation = d2r(90)

\* C18: the stored sample changes only when the listener gets an event
\* with alpha, beta and gamma non-null, and is then that event, whatever
\* was stored before; the rotation update() returns is computed from the
\* stored sample and the screen orientation; update() leaves the stored
\* sample, the screen orientation, the enabled flag and the listeners as
\* they were, so the next update() returns the same.
C18_LastValueWins ==
  /\ [](ret.kind \in NonNull =>
          /\ deviceOrientation # <<>>
          /\ LET device == deviceOrientation[1]
                 alpha == d2r(ToNumber(device.alpha))
                 beta == d2r(ToNumber(device.beta))
                 gamma == d2r(ToNumber(device.gamma))
             IN  ret.v = IF isThree
                           THEN <<set_quaternion(alpha, beta, gamma, screenOrientation)>>
                           ELSE <<alpha, beta, gamma, screenOrientation>>)
  /\ [][/\ deviceOrientation' # deviceOrientation =>
             \E event \in ValidEvents : DeviceOrientationEvent(event)
        /\ \A event \in ValidEvents :
             DeviceOrientationEvent(event) => deviceOrientation' = <<event>>
        /\ ret'.kind \in NonNull \cup {"null"} =>
             /\ deviceOrientation' = deviceOrientation
             /\ screenOrientation' = screenOrientation
             /\ isEnabled' = isEnabled /\ listeners' = listeners
             /\ ret'.kind = "null" <=> (~isEnabled \/ deviceOrientation = <<>>)]_vars

\* update() returned the angles of a stored sample whose beta is 90 degrees.
C18_Witness ==
  /\ ret.kind = "angles" /\ ret.v[2] = d2r(90) /\ isEnabled
  /\ deviceOrientation # <<>> /\ deviceOrientation[1].beta = Num(90)

\* C19: the deviceorientation and the orientationchange listener are both
\* attached when the enabled flag is true and both detached when it is
\* false; the stored sample changes only in a state where the flag is true.
C19_ListenersIffEnabled ==
  /\ [](listeners = IF isEnabled THEN SensorListeners ELSE {})
  /\ [][deviceOrientation' # deviceOrientation =>
          (isEnabled /\ "deviceorientation" \in listeners)]_vars

\* Enabled with both listeners attached, and a sample has been stored.
C19_Witness ==
  /\ isEnabled /\ listeners = SensorListeners
  /\ validSeen /\ deviceOrientation # <<>>

=============================================================================
